---- MODULE Spec2Model ----
(***************************************************************************)
(* jema2mqtt (src/src/index.ts): a bridge between JEMA hardware bindings   *)
(* and an MQTT broker.  The model follows main(): acquisition of the       *)
(* bindings, broker connect, subscribe, the per-entity startup tasks, the  *)
(* heartbeat timer, the signal handlers, the command handler and the       *)
(* hardware-change listener.  Every await of the source is a point where   *)
(* the other callbacks may run, so every await separates two actions.      *)
(***************************************************************************)
EXTENDS Integers, Sequences, FiniteSets, TLC

(* ------------------------------ bounds --------------------------------- *)
\* events that reach the process from outside during one run: command
\* messages, spontaneous changes of a monitored line, heartbeat timer ticks
\* and termination signals, in any mix
MaxEvents == 2

\* commands of one burst to one entity (SpecBurst)
MaxBurst == 3

(* --------------------------- configuration ----------------------------- *)
\* ids of the configured entities (config.json, entities[].id)
EntityIds == {"a", "b"}

\* the closed set of domains of the Entity type
EntityDomain == {"lock", "switch", "cover"}

\* config.json is cast, not validated: a domain outside the type can be there
Configs ==
    { [a |-> "lock",   b |-> "cover"],
      [a |-> "switch", b |-> "hatch"] }

deviceId == "dev"
haDiscoveryPrefix == "homeassistant"

\* (STATE is a reserved word of TLA+: the key is written State)
TopicType == [COMMAND |-> "set", State |-> "state", AVAILABILITY |-> "availability"]

StatusMessage == [ACTIVE |-> "ACTIVE", INACTIVE |-> "INACTIVE"]

\* payloads a broker message can carry: the two tokens and a foreign one
Payloads == {"ACTIVE", "INACTIVE", "TOGGLE"}

Signals == {"SIGINT", "SIGTERM"}

\* a topic scheme that leaves the id out
getTopic_noId(id, type) == "jema2mqtt/" \o type

\* getTopic = (device, type) => `jema2mqtt/${device.id}/${type}`
getTopic(id, type) == "jema2mqtt/" \o id \o "/" \o type

unique_id(id) == "jema2mqtt_" \o deviceId \o "_" \o id

discoveryTopic(id, dom) ==
    haDiscoveryPrefix \o "/" \o dom \o "/" \o unique_id(id) \o "/config"

\* topics a message can arrive on: the command topics and one of no entity
MsgTopics == {getTopic(e, TopicType.COMMAND) : e \in EntityIds}
                \cup {getTopic("zz", TopicType.COMMAND)}


VARIABLES
    domain,       \* entity id -> configured domain
    exit,         \* "running", "exit0" (process.exit(0)), "exit1" (process.exit(1))
    mainPc,       \* the await main() is suspended at ("announce": mid-turn)
    acq,          \* entity id -> state of requestJemaAccess
    connected,    \* connectAsync has resolved
    subscribed,   \* topics of the resolved subscribeAsync
    onMessage,    \* client.on("message") is registered
    task,         \* entity id -> the await the startup task is suspended at
    taskVal,      \* entity id -> value getMonitor gave the startup task
    listener,     \* entity id -> setMonitorListener has been called
    monitor,      \* entity id -> the monitored line of the hardware
    changes,      \* number of spontaneous hardware changes so far
    handlers,     \* invocations of handleMessage, in order of arrival
    sent,         \* topic -> the publishAsync calls on it, in order
    timer,        \* "none", "active" (setInterval), "cleared" (clearInterval)
    ticks,        \* number of heartbeat ticks so far
    sigInstalled, \* process.on("SIGINT"/"SIGTERM") are registered
    shutdowns,    \* invocations of shutdownHandler, in order of arrival
    endCalls      \* number of client.endAsync() calls

vars == <<domain, exit, mainPc, acq, connected, subscribed, onMessage, task,
          taskVal, listener, monitor, changes, handlers, sent, timer,
          ticks, sigInstalled, shutdowns, endCalls>>

startupVars == <<mainPc, acq, connected, subscribed, onMessage, task, taskVal,
                 listener, sigInstalled>>
hwVars == <<monitor, changes>>
shutVars == <<shutdowns, endCalls>>

\* the process lives and main is not in the middle of a turn: a callback or
\* the continuation of an await can run
Running == exit = "running" /\ mainPc # "announce"

\* the outside events so far
Events == Len(handlers) + changes + ticks + Len(shutdowns)

(* --------------------------- pure functions ---------------------------- *)
\* value ? StatusMessage.ACTIVE : StatusMessage.INACTIVE
StateToken(value) == IF value THEN StatusMessage.ACTIVE ELSE StatusMessage.INACTIVE

baseMessage(id) ==
    [ unique_id          |-> unique_id(id),
      command_topic      |-> getTopic(id, TopicType.COMMAND),
      state_topic        |-> getTopic(id, TopicType.State),
      availability_topic |-> getTopic(id, TopicType.AVAILABILITY),
      optimistic         |-> FALSE,
      retain             |-> TRUE ]

\* a cover whose command payloads are the other way round
getDiscoveryMessage_coverInverted(id, dom) ==
    IF dom = "lock" THEN
        baseMessage(id) @@
        [ payload_lock |-> StatusMessage.ACTIVE, payload_unlock |-> StatusMessage.INACTIVE,
          state_locked |-> StatusMessage.ACTIVE, state_unlocked |-> StatusMessage.INACTIVE ]
    ELSE IF dom = "switch" THEN
        baseMessage(id) @@
        [ payload_on |-> StatusMessage.ACTIVE, payload_off |-> StatusMessage.INACTIVE,
          state_on   |-> StatusMessage.ACTIVE, state_off   |-> StatusMessage.INACTIVE ]
    ELSE IF dom = "cover" THEN
        baseMessage(id) @@
        [ payload_close |-> StatusMessage.INACTIVE, payload_open |-> StatusMessage.ACTIVE,
          state_closed  |-> StatusMessage.ACTIVE, state_open   |-> StatusMessage.INACTIVE ]
    ELSE [ thrown |-> "unknown domain: " \o dom ]

\* the message of the thrown Error stands for the throw
getDiscoveryMessage(id, dom) ==
    IF dom = "lock" THEN
        baseMessage(id) @@
        [ payload_lock |-> StatusMessage.ACTIVE, payload_unlock |-> StatusMessage.INACTIVE,
          state_locked |-> StatusMessage.ACTIVE, state_unlocked |-> StatusMessage.INACTIVE ]
    ELSE IF dom = "switch" THEN
        baseMessage(id) @@
        [ payload_on |-> StatusMessage.ACTIVE, payload_off |-> StatusMessage.INACTIVE,
          state_on   |-> StatusMessage.ACTIVE, state_off   |-> StatusMessage.INACTIVE ]
    ELSE IF dom = "cover" THEN
        baseMessage(id) @@
        [ payload_close |-> StatusMessage.ACTIVE, payload_open |-> StatusMessage.INACTIVE,
          state_closed  |-> StatusMessage.ACTIVE, state_open   |-> StatusMessage.INACTIVE ]
    ELSE [ thrown |-> "unknown domain: " \o dom ]

Throws(m) == "thrown" \in DOMAIN m

\* JSON.stringify(discoveryMessage): the members of the object as pairs of a
\* key and the JSON text of its value (true and false for the two booleans,
\* the string itself for a string)
JSONstringify(m) ==
    {<<k, IF k \in {"optimistic", "retain"}
          THEN (IF m[k] THEN "true" ELSE "false")
          ELSE m[k]>> : k \in DOMAIN m}

\* every topic the process can publish on, under any configuration
AllTopics ==
    {getTopic(e, TopicType.State) : e \in EntityIds}
      \cup {getTopic(e, TopicType.AVAILABILITY) : e \in EntityIds}
      \cup {discoveryTopic(e, c[e]) : e \in EntityIds, c \in Configs}

\* client.publishAsync(topic, payload, {retain}): the call, as the client sees it
publishAsync(s, topic, payload, retain) ==
    [s EXCEPT ![topic] = Append(@, [payload |-> payload, retain |-> retain])]

\* publishState without the retain option
publishState_notRetained(s, id, value) ==
    publishAsync(s, getTopic(id, TopicType.State), StateToken(value), FALSE)

\* publishState of entity id: one retained publish of the token on its state topic
publishState(s, id, value) ==
    publishAsync(s, getTopic(id, TopicType.State), StateToken(value), TRUE)

\* publishAvailability(value): one publish per entity, all issued in one turn
publishAvailability(s, value) ==
    [t \in DOMAIN s |->
        IF \E e \in EntityIds : t = getTopic(e, TopicType.AVAILABILITY)
        THEN Append(s[t], [payload |-> value, retain |-> FALSE])
        ELSE s[t]]

\* entities.find((entity) => getTopic(entity, TopicType.COMMAND) === topic)
findEntity(topic) == {e \in EntityIds : getTopic(e, TopicType.COMMAND) = topic}

\* needsControl without the comparison with the monitor for ACTIVE
needsControl_activeAlways(message, mon) ==
    \/ message = StatusMessage.ACTIVE
    \/ message = StatusMessage.INACTIVE /\ mon

\* needsControl without the INACTIVE branch
needsControl_activeOnly(message, mon) ==
    message = StatusMessage.ACTIVE /\ ~mon

\* the condition under which handleMessage calls sendControl
needsControl(message, mon) ==
    \/ message = StatusMessage.ACTIVE /\ ~mon
    \/ message = StatusMessage.INACTIVE /\ mon

\* the messages the broker delivers: every payload on the command topic of
\* entity a, and ACTIVE on the command topic of the other entity and on the
\* topic of no entity (the handler returns before it looks at the payload of
\* that one)
Messages ==
    {<<t, m>> \in MsgTopics \X Payloads :
        t = getTopic("a", TopicType.COMMAND) \/ m = StatusMessage.ACTIVE}

(* ------------------------------- Init ---------------------------------- *)
\* the monitored lines when the process starts: all off or all on (a line is
\* brought to the other value by HardwareChange)
InitialMonitors == {[e \in EntityIds |-> v] : v \in BOOLEAN}

\* main() has read the configuration and called requestJemaAccess for every
\* entity (entities.map runs every callback up to its first await)
Init ==
    /\ domain \in Configs
    /\ exit = "running"
    /\ mainPc = "acquire"
    /\ acq = [e \in EntityIds |-> "pending"]
    /\ connected = FALSE
    /\ subscribed = {}
    /\ onMessage = FALSE
    /\ task = [e \in EntityIds |-> "idle"]
    /\ taskVal = [e \in EntityIds |-> FALSE]
    /\ listener = [e \in EntityIds |-> FALSE]
    /\ monitor \in InitialMonitors
    /\ changes = 0
    /\ handlers = <<>>
    /\ sent = [t \in AllTopics |-> <<>>]
    /\ timer = "none"
    /\ ticks = 0
    /\ sigInstalled = FALSE
    /\ shutdowns = <<>>
    /\ endCalls = 0

(* ------------------------------ startup -------------------------------- *)
\* process.exit(code): the process is gone, and with it every callback and
\* every suspended async function; what the broker and the hardware hold stays
processExit(code) ==
    /\ exit' = code
    /\ handlers' = <<>>
    /\ task' = [e \in EntityIds |-> "idle"]
    /\ taskVal' = [e \in EntityIds |-> FALSE]

\* the catch of the top level: any rejection of main() ends the process
MainThrows ==
    /\ mainPc' = "failed"
    /\ processExit("exit1")
    /\ UNCHANGED <<domain, acq, connected, subscribed, onMessage, listener, hwVars,
                   sent, timer, ticks, sigInstalled, shutVars>>

\* requestJemaAccess resolves for e; when it was the last one, Promise.all
\* resolves and main calls mqtt.connectAsync
AcquireOk(e) ==
    /\ Running /\ mainPc = "acquire" /\ acq[e] = "pending"
    /\ acq' = [acq EXCEPT ![e] = "ok"]
    /\ mainPc' = IF \A f \in EntityIds : acq'[f] = "ok" THEN "connect" ELSE mainPc
    /\ UNCHANGED <<domain, exit, connected, subscribed, onMessage, task, taskVal,
                   listener, hwVars, handlers, sent, timer, ticks, sigInstalled,
                   shutVars>>

\* Promise.allSettled instead of Promise.all: the rejection of e is kept as a
\* result and main goes on once every acquisition has settled
AcquireFail_settled(e) ==
    /\ Running /\ mainPc = "acquire" /\ acq[e] = "pending"
    /\ acq' = [acq EXCEPT ![e] = "failed"]
    /\ mainPc' = IF \A f \in EntityIds : acq'[f] # "pending" THEN "connect" ELSE mainPc
    /\ UNCHANGED <<domain, exit, connected, subscribed, onMessage, task, taskVal,
                   listener, hwVars, handlers, sent, timer, ticks, sigInstalled,
                   shutVars>>

\* requestJemaAccess rejects for e: Promise.all rejects, main throws
AcquireFail(e) ==
    /\ Running /\ mainPc = "acquire" /\ acq[e] = "pending"
    /\ acq' = [acq EXCEPT ![e] = "failed"]
    /\ mainPc' = "failed"
    /\ processExit("exit1")
    /\ UNCHANGED <<domain, connected, subscribed, onMessage, listener, hwVars,
                   sent, timer, ticks, sigInstalled, shutVars>>

\* connectAsync resolves; main calls client.subscribeAsync
ConnectOk ==
    /\ Running /\ mainPc = "connect"
    /\ connected' = TRUE
    /\ mainPc' = "subscribe"
    /\ UNCHANGED <<domain, exit, acq, subscribed, onMessage, task, taskVal,
                   listener, hwVars, handlers, sent, timer, ticks, sigInstalled,
                   shutVars>>

ConnectFail ==
    /\ Running /\ mainPc = "connect"
    /\ MainThrows

\* subscribeAsync resolves; main registers the message callback and starts
\* the startup task of every entity: each attaches its listener and calls
\* getMonitor before its first await
SubscribeOk ==
    /\ Running /\ mainPc = "subscribe"
    /\ subscribed' = {getTopic(e, TopicType.COMMAND) : e \in EntityIds}
    /\ onMessage' = TRUE
    /\ listener' = [e \in EntityIds |-> TRUE]
    /\ task' = [e \in EntityIds |-> "getMonitor"]
    /\ mainPc' = "entities"
    /\ UNCHANGED <<domain, exit, acq, connected, taskVal, hwVars, handlers, sent,
                   timer, ticks, sigInstalled, shutVars>>

SubscribeFail ==
    /\ Running /\ mainPc = "subscribe"
    /\ MainThrows

\* the hardware answers the getMonitor of e's startup task
InitialMonitorRead(e) ==
    /\ Running /\ mainPc = "entities" /\ task[e] = "getMonitor"
    /\ task' = [task EXCEPT ![e] = "gotMonitor"]
    /\ taskVal' = [taskVal EXCEPT ![e] = monitor[e]]
    /\ UNCHANGED <<domain, exit, mainPc, acq, connected, subscribed, onMessage,
                   listener, hwVars, handlers, sent, timer, ticks, sigInstalled,
                   shutVars>>

InitialMonitorFail(e) ==
    /\ Running /\ mainPc = "entities" /\ task[e] = "getMonitor"
    /\ MainThrows

\* the task resumes with the value read and calls publishState with it
InitialPublishState(e) ==
    /\ Running /\ mainPc = "entities" /\ task[e] = "gotMonitor"
    /\ sent' = publishState(sent, e, taskVal[e])
    /\ task' = [task EXCEPT ![e] = "publishState"]
    /\ UNCHANGED <<domain, exit, mainPc, acq, connected, subscribed, onMessage,
                   taskVal, listener, hwVars, handlers, timer, ticks, sigInstalled,
                   shutVars>>

\* the state publish resolves; the task builds the discovery message, which
\* throws on a domain it does not know, and publishes it retained
InitialStatePublished(e) ==
    /\ Running /\ mainPc = "entities" /\ task[e] = "publishState"
    /\ LET discoveryMessage == getDiscoveryMessage(e, domain[e]) IN
       IF Throws(discoveryMessage)
       THEN MainThrows
       ELSE /\ sent' = publishAsync(sent, discoveryTopic(e, domain[e]),
                                    JSONstringify(discoveryMessage), TRUE)
            /\ task' = [task EXCEPT ![e] = "publishDiscovery"]
            /\ UNCHANGED <<domain, exit, mainPc, acq, connected, subscribed,
                           onMessage, taskVal, listener, hwVars, handlers, timer,
                           ticks, sigInstalled, shutVars>>

InitialStatePublishFail(e) ==
    /\ Running /\ mainPc = "entities" /\ task[e] = "publishState"
    /\ MainThrows

\* what main does first once every startup task is done: setInterval and the
\* two process.on.  main goes on in the same turn (AnnounceOnline)
StartHeartbeat ==
    /\ timer' = "active"
    /\ sigInstalled' = TRUE
    /\ mainPc' = "announce"

\* a Promise.race in the place of the Promise.all: one finished task is enough
startupSettled_race(t) == \E f \in EntityIds : t[f] = "done"

\* await Promise.all(entities.map(async ...)): resolved when every task is
startupSettled(t) == \A f \in EntityIds : t[f] = "done"

\* e's discovery publish resolves; the last one resolves the Promise.all
DiscoveryPublished(e) ==
    /\ Running /\ mainPc = "entities" /\ task[e] = "publishDiscovery"
    /\ task' = [task EXCEPT ![e] = "done"]
    /\ IF startupSettled(task')
       THEN StartHeartbeat
       ELSE UNCHANGED <<timer, sigInstalled, mainPc>>
    /\ UNCHANGED <<domain, exit, acq, connected, subscribed, onMessage, taskVal,
                   listener, hwVars, handlers, sent, ticks, shutVars>>

\* a startup that never makes the first online publish
AnnounceOnline_skipped ==
    /\ exit = "running" /\ mainPc = "announce"
    /\ mainPc' = "online"
    /\ UNCHANGED <<domain, exit, acq, connected, subscribed, onMessage, task,
                   taskVal, listener, hwVars, handlers, sent, timer, ticks,
                   sigInstalled, shutVars>>

\* the rest of that turn: main calls publishAvailability("online"), which hands
\* one publish per entity to the client, and suspends on its await
AnnounceOnline ==
    /\ exit = "running" /\ mainPc = "announce"
    /\ sent' = publishAvailability(sent, "online")
    /\ mainPc' = "online"
    /\ UNCHANGED <<domain, exit, acq, connected, subscribed, onMessage, task,
                   taskVal, listener, hwVars, handlers, timer, ticks,
                   sigInstalled, shutVars>>

DiscoveryPublishFail(e) ==
    /\ Running /\ mainPc = "entities" /\ task[e] = "publishDiscovery"
    /\ MainThrows

\* the Promise.all of the first online publishes resolves: main logs "ready"
OnlinePublished ==
    /\ Running /\ mainPc = "online"
    /\ mainPc' = "ready"
    /\ UNCHANGED <<domain, exit, acq, connected, subscribed, onMessage, task,
                   taskVal, listener, hwVars, handlers, sent, timer, ticks,
                   sigInstalled, shutVars>>

\* the online publish to e rejects: the Promise.all rejects, main throws
OnlinePublishFail(e) ==
    /\ Running /\ mainPc = "online"
    /\ MainThrows

(* ------------------------------ heartbeat ------------------------------ *)
\* an interval that still fires after clearInterval
HeartbeatTick_afterClear ==
    /\ Running /\ timer # "none" /\ Events < MaxEvents
    /\ sent' = publishAvailability(sent, "online")
    /\ ticks' = ticks + 1
    /\ UNCHANGED <<domain, exit, startupVars, hwVars, handlers, timer, shutVars>>

\* the interval fires: () => void publishAvailability("online")
HeartbeatTick ==
    /\ Running /\ timer = "active" /\ Events < MaxEvents
    /\ sent' = publishAvailability(sent, "online")
    /\ ticks' = ticks + 1
    /\ UNCHANGED <<domain, exit, startupVars, hwVars, handlers, timer, shutVars>>

(* ------------------------------ shutdown ------------------------------- *)
\* shutdownHandler without the clearInterval
shutdownHandler_noClear ==
    /\ timer' = timer
    /\ sent' = publishAvailability(sent, "offline")
    /\ shutdowns' = Append(shutdowns, [pc |-> "offline", done |-> {}])

\* shutdownHandler up to its first await: clearInterval, then the call of
\* publishAvailability("offline")
shutdownHandler ==
    /\ timer' = "cleared"
    /\ sent' = publishAvailability(sent, "offline")
    /\ shutdowns' = Append(shutdowns, [pc |-> "offline", done |-> {}])

\* a termination signal arrives; the callbacks registered for SIGINT and for
\* SIGTERM are the same: () => void shutdownHandler()
Signal(sig) ==
    /\ Running /\ sigInstalled /\ Events < MaxEvents
    /\ sig \in Signals
    /\ shutdownHandler
    /\ UNCHANGED <<domain, exit, startupVars, hwVars, handlers, ticks, endCalls>>

\* a race instead of Promise.all: the first publish to resolve is enough
allResolved_any(done) == done # {}

\* await Promise.all(...): the invocation goes on when every publish of its
\* publishAvailability("offline") has resolved
allResolved(done) == done = EntityIds

\* the offline publish of invocation i to e resolves; when the Promise.all
\* resolves with it, the invocation calls client.endAsync()
OfflinePublished(i, e) ==
    /\ Running /\ i \in DOMAIN shutdowns
    /\ shutdowns[i].pc = "offline" /\ e \notin shutdowns[i].done
    /\ LET done == shutdowns[i].done \cup {e} IN
       IF allResolved(done)
       THEN /\ shutdowns' = [shutdowns EXCEPT ![i].done = done, ![i].pc = "end"]
            /\ endCalls' = endCalls + 1
       ELSE /\ shutdowns' = [shutdowns EXCEPT ![i].done = done]
            /\ UNCHANGED endCalls
    /\ UNCHANGED <<domain, exit, startupVars, hwVars, handlers, sent, timer, ticks>>

\* the offline publish to e rejects: the Promise.all rejects, the invocation
\* rejects and nothing catches it
OfflinePublishFail(i, e) ==
    /\ Running /\ i \in DOMAIN shutdowns
    /\ shutdowns[i].pc = "offline" /\ e \notin shutdowns[i].done
    /\ shutdowns' = [shutdowns EXCEPT ![i].pc = "rejected"]
    /\ UNCHANGED <<domain, exit, startupVars, hwVars, handlers, sent, timer, ticks,
                   endCalls>>

\* endAsync resolves; the invocation awaits Promise.all over the bindings
EndOk(i) ==
    /\ Running /\ i \in DOMAIN shutdowns /\ shutdowns[i].pc = "end"
    /\ shutdowns' = [shutdowns EXCEPT ![i].pc = "release"]
    /\ connected' = FALSE
    /\ UNCHANGED <<domain, exit, mainPc, acq, subscribed, onMessage, task, taskVal,
                   listener, hwVars, handlers, sent, timer, ticks, sigInstalled,
                   endCalls>>

EndFail(i) ==
    /\ Running /\ i \in DOMAIN shutdowns /\ shutdowns[i].pc = "end"
    /\ shutdowns' = [shutdowns EXCEPT ![i].pc = "rejected"]
    /\ UNCHANGED <<domain, exit, startupVars, hwVars, handlers, sent, timer, ticks,
                   endCalls>>

\* the bindings are values, not promises: the Promise.all over them resolves
\* in a later turn, and the invocation calls process.exit(0)
ReleaseDone(i) ==
    /\ Running /\ i \in DOMAIN shutdowns /\ shutdowns[i].pc = "release"
    /\ shutdowns' = [shutdowns EXCEPT ![i].pc = "exited"]
    /\ processExit("exit0")
    /\ UNCHANGED <<domain, mainPc, acq, connected, subscribed, onMessage, listener,
                   sigInstalled, hwVars, sent, timer, ticks, endCalls>>

(* ------------------------ hardware-change path ------------------------- *)
\* the listener of e, (value) => void publishState(value), when attached
monitorListener(e, value) ==
    IF listener[e] THEN publishState(sent, e, value) ELSE sent

\* the monitored line of e changes by itself (somebody turns the key)
HardwareChange(e) ==
    /\ Running /\ Events < MaxEvents
    /\ changes' = changes + 1
    /\ monitor' = [monitor EXCEPT ![e] = ~@]
    /\ sent' = monitorListener(e, monitor'[e])
    /\ UNCHANGED <<domain, exit, startupVars, handlers, timer, ticks, shutVars>>

(* --------------------------- command path ------------------------------ *)
\* a handler that takes the first entity whatever the topic
handleMessage_firstEntity(topic, message) ==
    [topic |-> topic, message |-> message,
     entity |-> "a",
     st |-> "getMonitor", mon |-> FALSE, pulsed |-> 0]

\* handleMessage up to its first await: look the entity up, return when there
\* is none, else call getMonitor on its binding
handleMessage(topic, message) ==
    IF findEntity(topic) = {}
    THEN [topic |-> topic, message |-> message, entity |-> "none",
          st |-> "done", mon |-> FALSE, pulsed |-> 0]
    ELSE [topic |-> topic, message |-> message,
          entity |-> CHOOSE e \in findEntity(topic) : TRUE,
          st |-> "getMonitor", mon |-> FALSE, pulsed |-> 0]

\* the broker delivers a message: client.on("message") starts a handler
Message(topic, message) ==
    /\ Running /\ onMessage /\ connected /\ Events < MaxEvents
    /\ handlers' = Append(handlers, handleMessage(topic, message))
    /\ UNCHANGED <<domain, exit, startupVars, hwVars, sent, timer, ticks, shutVars>>

\* the hardware answers the getMonitor of handler h
MonitorRead(h) ==
    /\ Running /\ h \in DOMAIN handlers /\ handlers[h].st = "getMonitor"
    /\ handlers' = [handlers EXCEPT ![h].st = "gotMonitor",
                                    ![h].mon = monitor[handlers[h].entity]]
    /\ UNCHANGED <<domain, exit, startupVars, hwVars, sent, timer, ticks, shutVars>>

\* getMonitor rejects: the handler rejects and nothing catches it
MonitorReadFail(h) ==
    /\ Running /\ h \in DOMAIN handlers /\ handlers[h].st = "getMonitor"
    /\ handlers' = [handlers EXCEPT ![h].st = "getMonitorRejected"]
    /\ UNCHANGED <<domain, exit, startupVars, hwVars, sent, timer, ticks, shutVars>>

\* a handler that calls sendControl twice
Decide_pulseTwice(h) ==
    /\ Running /\ h \in DOMAIN handlers /\ handlers[h].st = "gotMonitor"
    /\ handlers' =
         IF needsControl(handlers[h].message, handlers[h].mon)
         THEN [handlers EXCEPT ![h].st = "sendControl", ![h].pulsed = @ + 2]
         ELSE [handlers EXCEPT ![h].st = "done"]
    /\ UNCHANGED <<domain, exit, startupVars, hwVars, sent, timer, ticks, shutVars>>

\* the handler resumes with the value read: it calls sendControl or returns
Decide(h) ==
    /\ Running /\ h \in DOMAIN handlers /\ handlers[h].st = "gotMonitor"
    /\ handlers' =
         IF needsControl(handlers[h].message, handlers[h].mon)
         THEN [handlers EXCEPT ![h].st = "sendControl", ![h].pulsed = @ + 1]
         ELSE [handlers EXCEPT ![h].st = "done"]
    /\ UNCHANGED <<domain, exit, startupVars, hwVars, sent, timer, ticks, shutVars>>

\* sendControl resolves: the pulse has toggled the monitored line of the
\* entity, whose listener is told the new value
SendControlOk(h) ==
    /\ Running /\ h \in DOMAIN handlers /\ handlers[h].st = "sendControl"
    /\ handlers' = [handlers EXCEPT ![h].st = "done"]
    /\ monitor' = [monitor EXCEPT ![handlers[h].entity] = ~@]
    /\ sent' = monitorListener(handlers[h].entity, monitor'[handlers[h].entity])
    /\ UNCHANGED <<domain, exit, startupVars, changes, timer, ticks, shutVars>>

\* sendControl rejects: no pulse was made, the handler rejects and nothing
\* catches it
SendControlFail(h) ==
    /\ Running /\ h \in DOMAIN handlers /\ handlers[h].st = "sendControl"
    /\ handlers' = [handlers EXCEPT ![h].st = "sendControlRejected"]
    /\ UNCHANGED <<domain, exit, startupVars, hwVars, sent, timer, ticks, shutVars>>

(* ------------------------ unhandled rejections ------------------------- *)
\* `void handleMessage(...)` and `void shutdownHandler()` drop their promise:
\* when it rejects, no handler is attached to it.  What the runtime does with
\* an unhandled rejection is its own choice (end the process with exit code 1,
\* or warn and go on), so ending the process is one possible step
UnhandledRejection ==
    /\ Running
    /\ \/ \E h \in DOMAIN handlers :
             handlers[h].st \in {"getMonitorRejected", "sendControlRejected"}
       \/ \E i \in DOMAIN shutdowns : shutdowns[i].pc = "rejected"
    /\ processExit("exit1")
    /\ UNCHANGED <<domain, mainPc, acq, connected, subscribed, onMessage, listener,
                   hwVars, sent, timer, ticks, sigInstalled, shutVars>>

(* ------------------------------- Next ---------------------------------- *)
Next ==
    \/ \E e \in EntityIds : AcquireOk(e)
    \/ \E e \in EntityIds : AcquireFail(e)
    \/ ConnectOk
    \/ ConnectFail
    \/ SubscribeOk
    \/ SubscribeFail
    \/ \E e \in EntityIds : InitialMonitorRead(e)
    \/ \E e \in EntityIds : InitialMonitorFail(e)
    \/ \E e \in EntityIds : InitialPublishState(e)
    \/ \E e \in EntityIds : InitialStatePublished(e)
    \/ \E e \in EntityIds : InitialStatePublishFail(e)
    \/ \E e \in EntityIds : DiscoveryPublished(e)
    \/ \E e \in EntityIds : DiscoveryPublishFail(e)
    \/ AnnounceOnline
    \/ OnlinePublished
    \/ \E e \in EntityIds : OnlinePublishFail(e)
    \/ HeartbeatTick
    \/ \E sig \in Signals : Signal(sig)
    \/ \E i \in DOMAIN shutdowns, e \in EntityIds : OfflinePublished(i, e)
    \/ \E i \in DOMAIN shutdowns, e \in EntityIds : OfflinePublishFail(i, e)
    \/ \E i \in DOMAIN shutdowns : EndOk(i)
    \/ \E i \in DOMAIN shutdowns : EndFail(i)
    \/ \E i \in DOMAIN shutdowns : ReleaseDone(i)
    \/ \E msg \in Messages : Message(msg[1], msg[2])
    \/ \E h \in DOMAIN handlers : MonitorRead(h)
    \/ \E h \in DOMAIN handlers : MonitorReadFail(h)
    \/ \E h \in DOMAIN handlers : Decide(h)
    \/ \E h \in DOMAIN handlers : SendControlOk(h)
    \/ \E h \in DOMAIN handlers : SendControlFail(h)
    \/ \E e \in EntityIds : HardwareChange(e)
    \/ UnhandledRejection

Spec == Init /\ [][Next]_vars

(* --------------------- a burst of commands to one entity --------------- *)
\* The same program with the broker delivering, in the ready state, up to
\* MaxBurst commands to one entity, and nothing failing: the handlers of the
\* burst interleave at their awaits with each other.
BurstEntity == "a"

\* client.on("message") for a command of the burst
Burst(message) ==
    /\ Running /\ onMessage /\ connected /\ mainPc = "ready"
    /\ Len(handlers) < MaxBurst
    /\ handlers' = Append(handlers,
                          handleMessage(getTopic(BurstEntity, TopicType.COMMAND), message))
    /\ UNCHANGED <<domain, exit, startupVars, hwVars, sent, timer, ticks, shutVars>>

NextBurst ==
    \/ \E e \in EntityIds : AcquireOk(e)
    \/ ConnectOk
    \/ SubscribeOk
    \/ \E e \in EntityIds : InitialMonitorRead(e)
    \/ \E e \in EntityIds : InitialPublishState(e)
    \/ \E e \in EntityIds : InitialStatePublished(e)
    \/ \E e \in EntityIds : DiscoveryPublished(e)
    \/ AnnounceOnline
    \/ OnlinePublished
    \/ \E message \in {StatusMessage.ACTIVE, StatusMessage.INACTIVE} : Burst(message)
    \/ \E h \in DOMAIN handlers : MonitorRead(h)
    \/ \E h \in DOMAIN handlers : Decide(h)
    \/ \E h \in DOMAIN handlers : SendControlOk(h)
    \/ \E e \in EntityIds : HardwareChange(e)

SpecBurst == Init /\ [][NextBurst]_vars

(* ============================== claims ================================= *)
Tokens == {"ACTIVE", "INACTIVE"}

\* handler h has the value getMonitor gave it
HasRead(h) ==
    handlers[h].st \in {"gotMonitor", "sendControl", "done", "sendControlRejected"}
      /\ handlers[h].entity # "none"

\* handler h is past the decision that follows its read
Decided(h) ==
    handlers[h].st \in {"sendControl", "done", "sendControlRejected"}
      /\ handlers[h].entity # "none"

\* the value read by h is the state its command asks for
AlreadyThere(h) ==
    \/ handlers[h].message = "ACTIVE" /\ handlers[h].mon = TRUE
    \/ handlers[h].message = "INACTIVE" /\ handlers[h].mon = FALSE

\* the value read by h is the opposite of the state its command asks for
Differs(h) ==
    \/ handlers[h].message = "ACTIVE" /\ handlers[h].mon = FALSE
    \/ handlers[h].message = "INACTIVE" /\ handlers[h].mon = TRUE

\* the topics of the entities, written out
AvailabilityTopics == [e \in EntityIds |-> "jema2mqtt/" \o e \o "/availability"]
StateTopics == [e \in EntityIds |-> "jema2mqtt/" \o e \o "/state"]
CommandTopicOf == [e \in EntityIds |-> "jema2mqtt/" \o e \o "/set"]
AvailabilityTopic(e) == AvailabilityTopics[e]
StateTopic(e) == StateTopics[e]

\* number of publishes of payload on e's availability topic
AvailabilityCount(e, payload) ==
    Cardinality({k \in DOMAIN sent[AvailabilityTopic(e)] :
                    sent[AvailabilityTopic(e)][k].payload = payload})

\* offline has been handed to the client for e / its publish has resolved
OfflineIssued(e) == AvailabilityCount(e, "offline") > 0
OfflineResolved(e) == \E i \in DOMAIN shutdowns : e \in shutdowns[i].done

NothingSent == \A t \in DOMAIN sent : sent[t] = <<>>

\* C1: a command handler that read a monitored state equal to the commanded
\* state (ACTIVE with monitor true, INACTIVE with monitor false) has issued
\* no control pulse and is not issuing one.
C1_NoPulseWhenAlreadyThere ==
    \A h \in DOMAIN handlers :
        (HasRead(h) /\ AlreadyThere(h)) =>
            /\ handlers[h].pulsed = 0
            /\ handlers[h].st \notin {"sendControl", "sendControlRejected"}

\* C1 witness: the scenario of the specification on one entity: an ACTIVE
\* command pulsed, a second ACTIVE command read true and returned without pulse.
C1_Witness ==
    \E h1, h2 \in DOMAIN handlers :
        /\ handlers[h1].entity = handlers[h2].entity
        /\ handlers[h1].message = "ACTIVE" /\ handlers[h1].pulsed = 1
        /\ handlers[h2].message = "ACTIVE" /\ handlers[h2].mon = TRUE
        /\ handlers[h2].st = "done" /\ handlers[h2].pulsed = 0

\* C2: a command handler that read a monitored state different from the
\* commanded state has called sendControl exactly once when it is past its
\* decision, and no handler ever calls it more than once.
C2_ExactlyOnePulseWhenDiffers ==
    \A h \in DOMAIN handlers :
        /\ handlers[h].pulsed <= 1
        /\ (Decided(h) /\ Differs(h)) => handlers[h].pulsed = 1

\* C2 witness: an INACTIVE command read true, pulsed once, and the line is off.
C2_Witness ==
    \E h \in DOMAIN handlers :
        /\ handlers[h].message = "INACTIVE" /\ handlers[h].mon = TRUE
        /\ handlers[h].st = "done" /\ handlers[h].pulsed = 1
        /\ monitor[handlers[h].entity] = FALSE

\* C3: a message on an entity's command topic whose payload is neither ACTIVE
\* nor INACTIVE produces no control pulse and no error (the handler does not
\* reject), whether or not the hardware read of the handler succeeds.
C3_UnknownPayloadNoPulseNoError ==
    \A h \in DOMAIN handlers :
        (handlers[h].entity # "none" /\ handlers[h].message \notin Tokens) =>
            /\ handlers[h].pulsed = 0
            /\ handlers[h].st \notin {"getMonitorRejected", "sendControlRejected"}

\* C4: every step in which the monitored line of an entity with an attached
\* listener changes to v adds exactly one publish: on that entity's state
\* topic, retained, with payload ACTIVE for true and INACTIVE for false; no
\* other topic gets a publish in that step.
C4_ListenerPublishesOnce ==
    [][\A e \in EntityIds :
          (listener[e] /\ monitor'[e] # monitor[e]) =>
              sent' = [sent EXCEPT ![StateTopic(e)] =
                          Append(@, [payload |-> IF monitor'[e] THEN "ACTIVE"
                                                               ELSE "INACTIVE",
                                     retain |-> TRUE])]]_vars

\* C4 witness: during startup, while the startup task of a still waits for
\* its getMonitor, the listener of a has published a change.
C4_Witness ==
    /\ mainPc = "entities" /\ task["a"] = "getMonitor"
    /\ Len(sent[StateTopic("a")]) = 1
    /\ sent[StateTopic("a")][1].payload = (IF monitor["a"] THEN "ACTIVE" ELSE "INACTIVE")

\* C5: once a shutdown has begun, offline has been handed to the client for
\* every entity, and client.endAsync() is called only when the offline
\* publish of every entity has resolved.
C5_OfflineBeforeClose ==
    /\ Len(shutdowns) > 0 => \A e \in EntityIds : OfflineIssued(e)
    /\ endCalls > 0 => \A e \in EntityIds : OfflineResolved(e)
    /\ \A i \in DOMAIN shutdowns :
          shutdowns[i].pc \in {"end", "release", "exited"} =>
              shutdowns[i].done = EntityIds

\* C5 witness: the connection has been closed by a shutdown.
C5_Witness ==
    /\ endCalls > 0 /\ ~connected
    /\ \E i \in DOMAIN shutdowns : shutdowns[i].pc = "release"

\* C6: the shutdown sequence runs once: offline is published at most once to
\* each entity's availability topic and client.endAsync() is called at most
\* once, whatever signals arrive.
C6_ShutdownRunsOnce ==
    /\ endCalls <= 1
    /\ \A e \in EntityIds : AvailabilityCount(e, "offline") <= 1

\* C7: a failed step of the shutdown does not stop it: no invocation of the
\* shutdown sequence is left abandoned at the step that failed.
C7_ShutdownGoesOnAfterFailure ==
    \A i \in DOMAIN shutdowns : shutdowns[i].pc # "rejected"

\* C8: within a shutdown the steps come in order: the timer is cleared before
\* offline is handed to the client, endAsync is called after every offline
\* publish has resolved, the bindings are awaited after the connection is
\* closed, and the process exits with code 0 last.
C8_ShutdownOrder ==
    /\ (\E e \in EntityIds : OfflineIssued(e)) => timer = "cleared"
    /\ \A i \in DOMAIN shutdowns :
          /\ shutdowns[i].pc \in {"end", "release", "exited"} =>
                /\ shutdowns[i].done = EntityIds
                /\ endCalls > 0
          /\ shutdowns[i].pc \in {"release", "exited"} => ~connected
          /\ shutdowns[i].pc = "exited" => exit = "exit0"
    /\ exit = "exit0" =>
          /\ \E i \in DOMAIN shutdowns : shutdowns[i].pc = "exited"
          /\ ~connected /\ timer = "cleared"
          /\ \A e \in EntityIds : OfflineIssued(e) /\ OfflineResolved(e)

\* C8 witness: a shutdown has run to process.exit(0).
C8_Witness == exit = "exit0"

\* C9: with an entity whose domain is outside {lock, switch, cover}, the
\* broker is never connected, nothing is subscribed, nothing is published,
\* and the process does not come up.
C9_UnknownDomainFailsBeforeConnect ==
    (\E e \in EntityIds : domain[e] \notin {"lock", "switch", "cover"}) =>
        /\ ~connected
        /\ subscribed = {}
        /\ NothingSent
        /\ mainPc # "ready" /\ exit # "exit0"

\* C10: main goes past the acquisition only with every binding acquired; once
\* the acquisition of one entity has failed the process has exited with code
\* 1, the broker was never connected, the message callback was never
\* registered, no command was handled, and main never reaches ready.
C10_AcquisitionFailureIsFatal ==
    /\ (connected \/ mainPc \notin {"acquire", "failed"}) =>
          \A e \in EntityIds : acq[e] = "ok"
    /\ (\E e \in EntityIds : acq[e] = "failed") =>
          /\ exit = "exit1" /\ mainPc = "failed"
          /\ ~connected /\ subscribed = {} /\ ~onMessage
          /\ handlers = <<>> /\ NothingSent

\* C10 witness: one binding was acquired, the other acquisition failed.
C10_Witness ==
    \E e, f \in EntityIds : acq[e] = "failed" /\ acq[f] = "ok"

(* ------------------------ claims C11 .. C20 ---------------------------- *)
CommandTopics == {getTopic(e, TopicType.COMMAND) : e \in EntityIds}
DiscoveryTopic(e) == discoveryTopic(e, domain[e])

\* online has been handed to the client for some entity
OnlineIssued == \E e \in EntityIds : AvailabilityCount(e, "online") > 0

\* C11: the first online publish, the heartbeat timer and the ready state come
\* only after the subscription to every command topic has completed and, for
\* every entity, the listener is attached, the current state has been
\* published on its state topic and its discovery message has been published;
\* a startup in which one of these steps failed has published no online.
C11_ReadyOnlyAfterStartupSteps ==
    /\ (OnlineIssued \/ timer # "none" \/ mainPc \in {"online", "ready"}) =>
          /\ subscribed = CommandTopics
          /\ \A e \in EntityIds :
                /\ listener[e]
                /\ sent[StateTopic(e)] # <<>>
                /\ Len(sent[DiscoveryTopic(e)]) = 1
                /\ Running => task[e] = "done"
    /\ (mainPc = "failed" /\ \E e \in EntityIds : sent[DiscoveryTopic(e)] = <<>>) =>
          ~OnlineIssued

\* ready has been reached; every entity has its discovery message and online
C11_Witness ==
    /\ mainPc = "ready"
    /\ \A e \in EntityIds :
          Len(sent[DiscoveryTopic(e)]) = 1 /\ AvailabilityCount(e, "online") > 0

\* C12: in the steady state (ready reached, no shutdown begun) the process is
\* not ended with an error: a failed monitor read or a failed pulse of one
\* entity drops that command and the process keeps running.
C12_SteadyStateFailureContained ==
    (mainPc = "ready" /\ shutdowns = <<>>) => exit # "exit1"

\* C13: the lifecycle moves starting -> ready -> stopping -> stopped only:
\* stopping (a shutdown run exists) is entered only once ready has been
\* reached, so ready is never reached after stopping has begun.
C13_StoppingOnlyAfterReady ==
    shutdowns # <<>> => mainPc = "ready"

\* the immediate online publish of main has been handed to the client
ImmediateOnlineIssued == timer # "none" /\ mainPc # "announce"

\* C14 as stated: the heartbeat timer is started only after the immediate
\* online publish, so the timer does not exist before every entity has been
\* published online once.
C14_TimerOnlyAfterImmediateOnline ==
    timer # "none" => \A e \in EntityIds : AvailabilityCount(e, "online") > 0

\* C14, amended: the timer is created in the turn that issues the immediate
\* online publish, before the call, and no tick runs in between: every entity
\* has had online published exactly once more than there were ticks as soon as
\* that turn is over, and neither a tick nor an online publish comes before it.
C14_NoTickBeforeImmediateOnline ==
    \A e \in EntityIds :
        /\ ImmediateOnlineIssued => AvailabilityCount(e, "online") = ticks + 1
        /\ ~ImmediateOnlineIssued =>
              ticks = 0 /\ AvailabilityCount(e, "online") = 0
        /\ mainPc = "ready" => ImmediateOnlineIssued

\* a tick has published online while main still awaits the immediate publish
C14_Witness ==
    /\ ticks > 0 /\ mainPc = "online"
    /\ \A e \in EntityIds : AvailabilityCount(e, "online") = ticks + 1

\* ids getTopic is tried on: the configured ones, one of no entity, and ids
\* that hold a slash or the name of a category
IdSamples == EntityIds \cup {"zz", "", "set", "a/set", "a/state", "b/availability"}
Categories == {TopicType.COMMAND, TopicType.State, TopicType.AVAILABILITY}

\* getTopic gives different strings for different (id, category) pairs
getTopicInjective ==
    \A i, j \in IdSamples, c, d \in Categories :
        getTopic(i, c) = getTopic(j, d) => (i = j /\ c = d)

\* the entities whose command topic is topic
RoutedTo(topic) == {e \in EntityIds : CommandTopicOf[e] = topic}

\* C15: getTopic is injective on (entity id, category): distinct ids never
\* share a topic, the three topics of one entity differ, and so every message
\* on a command topic is handled for exactly one entity, the one whose command
\* topic it came on (a message on any other topic is handled for none).
C15_TopicsInjective ==
    /\ getTopicInjective
    /\ \A e \in EntityIds : getTopic(e, TopicType.COMMAND) = CommandTopicOf[e]
    /\ \A h \in DOMAIN handlers :
          /\ Cardinality(RoutedTo(handlers[h].topic)) <= 1
          /\ handlers[h].entity # "none" =>
                RoutedTo(handlers[h].topic) = {handlers[h].entity}
          /\ handlers[h].entity = "none" =>
                handlers[h].topic \notin CommandTopics

\* one message has been routed to entity a and one to entity b
C15_Witness ==
    \E g, h \in DOMAIN handlers :
        handlers[g].entity = "a" /\ handlers[h].entity = "b"

\* the JSON object p has member k, with value v
Member(p, k, v) == <<k, v>> \in p /\ \A q \in p : q[1] = k => q[2] = v

\* the tokens of a discovery payload p of domain dom: the ACTIVE direction
\* (lock, on, close) and the INACTIVE direction (unlock, off, open), each with
\* the state key of the same direction
TokenMapping(p, dom) ==
    /\ dom = "lock" =>
          /\ Member(p, "payload_lock", "ACTIVE") /\ Member(p, "state_locked", "ACTIVE")
          /\ Member(p, "payload_unlock", "INACTIVE")
          /\ Member(p, "state_unlocked", "INACTIVE")
    /\ dom = "switch" =>
          /\ Member(p, "payload_on", "ACTIVE") /\ Member(p, "state_on", "ACTIVE")
          /\ Member(p, "payload_off", "INACTIVE") /\ Member(p, "state_off", "INACTIVE")
    /\ dom = "cover" =>
          /\ Member(p, "payload_close", "ACTIVE") /\ Member(p, "state_closed", "ACTIVE")
          /\ Member(p, "payload_open", "INACTIVE") /\ Member(p, "state_open", "INACTIVE")

KnownDomains == {"lock", "switch", "cover"}

\* what getDiscoveryMessage builds has the token mapping of its domain
getDiscoveryMessageMapping ==
    \A id \in EntityIds, dom \in KnownDomains :
        TokenMapping(JSONstringify(getDiscoveryMessage(id, dom)), dom)

\* C16: the discovery payload of a lock says lock = ACTIVE and unlock =
\* INACTIVE, that of a switch on = ACTIVE and off = INACTIVE, that of a cover
\* close = ACTIVE and open = INACTIVE, and its state_* keys carry the token of
\* the command key of the same direction; so for what getDiscoveryMessage
\* builds and for every discovery message the process has published.
C16_DiscoveryTokenMapping ==
    /\ getDiscoveryMessageMapping
    /\ \A e \in EntityIds :
          LET published == sent[DiscoveryTopic(e)] IN
          \A k \in DOMAIN published :
              /\ domain[e] \in KnownDomains
              /\ TokenMapping(published[k].payload, domain[e])

\* the discovery messages of a lock and of a cover have been published
C16_Witness ==
    \E e, f \in EntityIds :
        /\ domain[e] = "lock" /\ sent[DiscoveryTopic(e)] # <<>>
        /\ domain[f] = "cover" /\ sent[DiscoveryTopic(f)] # <<>>

\* the commands received for e, and the control pulses they have issued
Commands(e) == Cardinality({h \in DOMAIN handlers : handlers[h].entity = e})
Pulses(e) ==
    Cardinality({h \in DOMAIN handlers :
                    handlers[h].entity = e /\ handlers[h].pulsed > 0})

\* every command received for e asks for the same state and the line of no
\* entity has changed by itself: one pulse reaches the commanded state
SameCommand(e) ==
    /\ changes = 0
    /\ \E tok \in Tokens :
          \A h \in DOMAIN handlers : handlers[h].entity = e => handlers[h].message = tok

\* pulses beyond the one needed to reach the commanded state
Redundant(e) == IF Pulses(e) = 0 THEN 0 ELSE Pulses(e) - 1

\* C17 as stated: whatever the interleaving of the handlers of one entity, the
\* pulses beyond the one needed to reach the commanded state are at most one,
\* for any number of commands in flight.
C17_AtMostOneRedundantPulse ==
    \A e \in EntityIds : SameCommand(e) => Redundant(e) <= 1

\* C17, amended: each command in flight issues at most one pulse, and only on
\* a read of its own that differed from the commanded state, so the redundant
\* pulses of an entity stay below the number of its commands in flight (and
\* can be as many as that number less one).
C17_RedundantPulsesBelowCommands ==
    /\ \A h \in DOMAIN handlers :
          handlers[h].pulsed <= 1 /\ (handlers[h].pulsed = 1 => Differs(h))
    /\ \A e \in EntityIds :
          SameCommand(e) => Redundant(e) <= (IF Commands(e) = 0 THEN 0 ELSE Commands(e) - 1)

\* three commands for the same state, each read before any pulse took effect,
\* have issued three pulses: two redundant ones
C17_Witness ==
    /\ SameCommand(BurstEntity) /\ Commands(BurstEntity) = 3
    /\ Redundant(BurstEntity) = 2

\* the startup task of e has issued its publish of the current state, so no
\* publish on the state topic of e is pending (the listener publishes in the
\* turn of the change)
StatePublishesIssued(e) ==
    Running /\ task[e] \in {"publishState", "publishDiscovery", "done"}

\* C18: the most recent value wins on the state topic: when no publish of the
\* state of an entity is pending, the last payload published on its state
\* topic is the token of the current monitored value, also when the line
\* changed while the initial read and publish of startup were in flight.
C18_LastStateIsCurrent ==
    \A e \in EntityIds :
        StatePublishesIssued(e) =>
            /\ sent[StateTopic(e)] # <<>>
            /\ sent[StateTopic(e)][Len(sent[StateTopic(e)])].payload
                  = StateToken(monitor[e])

\* C19: on the availability topic of every entity no online is published
\* after an offline: once a shutdown has published offline, neither a
\* heartbeat tick nor the first online publish of main follows it, whenever
\* the signal arrives.
C19_NoOnlineAfterOffline ==
    \A e \in EntityIds :
        \A j, k \in DOMAIN sent[AvailabilityTopic(e)] :
            (j < k /\ sent[AvailabilityTopic(e)][j].payload = "offline")
                => sent[AvailabilityTopic(e)][k].payload # "online"

\* the first online, the online of a tick and then the offline of a shutdown
C19_Witness ==
    /\ ticks > 0 /\ shutdowns # <<>>
    /\ \A e \in EntityIds :
          /\ Len(sent[AvailabilityTopic(e)]) = 3
          /\ sent[AvailabilityTopic(e)][1].payload = "online"
          /\ sent[AvailabilityTopic(e)][2].payload = "online"
          /\ sent[AvailabilityTopic(e)][3].payload = "offline"

\* handler h takes the step from st1 to st2
HandlerStep(h, st1, st2) ==
    /\ h \in DOMAIN handlers /\ h \in DOMAIN handlers'
    /\ handlers[h].st = st1 /\ handlers'[h].st = st2

\* the bindings and state topics of the entities outside E are left alone
OthersUntouched(E) ==
    \A f \in EntityIds \ E :
        monitor'[f] = monitor[f] /\ sent'[StateTopic(f)] = sent[StateTopic(f)]

\* C20: the handler of a message on the command topic of entity E reads the
\* monitor of E and pulses the line of E only, the lines and state topics of
\* the other entities stay as they are; a message on a topic that is the
\* command topic of no entity is done at once: no read, no pulse, no publish.
C20_HandlerTouchesOnlyItsEntity ==
    [][\A h \in DOMAIN handlers' :
        LET E == RoutedTo(handlers'[h].topic) IN
        /\ E = {} =>
              /\ handlers'[h].st = "done" /\ handlers'[h].pulsed = 0
              /\ h \notin DOMAIN handlers => (monitor' = monitor /\ sent' = sent)
        /\ HandlerStep(h, "getMonitor", "gotMonitor") =>
              \E e \in E : handlers'[h].mon = monitor[e] /\ OthersUntouched({})
        /\ HandlerStep(h, "sendControl", "done") =>
              /\ \A e \in E : monitor'[e] # monitor[e]
              /\ OthersUntouched(E)
      ]_vars

\* a command for b has pulsed the line of b while the line of a is the other
\* way, and a message on no entity's command topic has been received
C20_Witness ==
    /\ \E h \in DOMAIN handlers :
          /\ handlers[h].entity = "b" /\ handlers[h].st = "done"
          /\ handlers[h].pulsed = 1 /\ monitor["a"] # monitor["b"]
    /\ \E g \in DOMAIN handlers : RoutedTo(handlers[g].topic) = {}

====
